---- MODULE Spec2Model ----
(***************************************************************************)
(* Model of hypercorn/asgi/wsproto.py: the WebsocketMixin that adapts an   *)
(* ASGI application to a wsproto connection, and the WebsocketBuffer.      *)
(*                                                                         *)
(* A connection is the record c = [state, response, wire, log, queue]:     *)
(*   state    self.state (ASGIWebsocketState)                              *)
(*   response self.response (the staged websocket.http.response.start)     *)
(*   wire     the events handed to self.asend, in order                    *)
(*   log      the records handed to config.access_logger.access, in order  *)
(*   queue    the messages handed to self.asgi_put, in order               *)
(* Coroutines run between awaits without interruption (asyncio), so every  *)
(* handler is a chain of segments, each ending at an await or at the       *)
(* handler's end.  Spec runs every asgi_send call to completion before the *)
(* next one (the application awaits each send); ConcSpec lets the          *)
(* application issue a call while another is suspended at an await.        *)
(***************************************************************************)
EXTENDS Integers, Sequences, FiniteSets, TLC

VARIABLES conn, app, hist, fin, calls, buffer, trace

vars == <<conn, app, hist, fin, calls, buffer, trace>>

(* ---------------------------- bounds ----------------------------------- *)
MaxInstr == 4
MaxTasks == 2
MaxOps == 4
MaxLength == 3

(* ------------------------- ASGIWebsocketState -------------------------- *)
HANDSHAKE == "HANDSHAKE"
CONNECTED == "CONNECTED"
RESPONSE == "RESPONSE"
CLOSED == "CLOSED"
HTTPCLOSED == "HTTPCLOSED"

ASGIWebsocketState == {HANDSHAKE, CONNECTED, RESPONSE, CLOSED, HTTPCLOSED}

(* CloseReason.ABNORMAL_CLOSURE *)
ABNORMAL_CLOSURE == 1006

(* ------------------------------ values --------------------------------- *)
(* A Python value: its type and, for bytes and str, its content as a      *)
(* sequence of code points.                                                *)
None == [kind |-> "none", data |-> <<>>]
Bytes(d) == [kind |-> "bytes", data |-> d]
Str(d) == [kind |-> "str", data |-> d]
IntValue(n) == [kind |-> "int", data |-> <<n>>]

NoResponse == [status |-> 0, headers |-> <<>>, set |-> FALSE]

(* ------------------------- wire events (wsproto) ----------------------- *)
NoEvent == [ev |-> "none", status_code |-> 0, headers |-> <<>>, has_body |-> FALSE,
            data |-> <<>>, body_finished |-> FALSE, code |-> 0]
AcceptConnection == [NoEvent EXCEPT !.ev = "AcceptConnection"]
RejectConnection(status, headers, has_body) ==
    [NoEvent EXCEPT !.ev = "RejectConnection", !.status_code = status,
                    !.headers = headers, !.has_body = has_body]
RejectData(data, body_finished) ==
    [NoEvent EXCEPT !.ev = "RejectData", !.data = data, !.body_finished = body_finished]
BytesMessage(data) == [NoEvent EXCEPT !.ev = "BytesMessage", !.data = data]
TextMessage(data) == [NoEvent EXCEPT !.ev = "TextMessage", !.data = data]
CloseConnection(code) == [NoEvent EXCEPT !.ev = "CloseConnection", !.code = code]

(* --------------------- application instructions ------------------------ *)
NoMessage == [type |-> "none", status |-> 0, headers |-> <<>>, body |-> <<>>,
              more_body |-> FALSE, bytes |-> None, text |-> None, code |-> 0]

SPACE == 32
Statuses == {204, 404}
HeaderLists == { <<>>, << << <<SPACE, 97>>, <<98, SPACE>> >> >> }
Bodies == { <<>>, <<1, 2>> }
Codes == {1000}

Messages ==
    {[NoMessage EXCEPT !.type = "websocket.accept"]}
    \cup {[NoMessage EXCEPT !.type = "websocket.http.response.start",
                            !.status = s, !.headers = h] : s \in Statuses, h \in HeaderLists}
    \cup {[NoMessage EXCEPT !.type = "websocket.http.response.body",
                            !.body = b, !.more_body = mb] : b \in Bodies, mb \in BOOLEAN}
    \cup {[NoMessage EXCEPT !.type = "websocket.send", !.bytes = Bytes(<<7>>)],
          [NoMessage EXCEPT !.type = "websocket.send", !.text = Str(<<8>>)],
          [NoMessage EXCEPT !.type = "websocket.send", !.text = IntValue(9)]}
    \cup {[NoMessage EXCEPT !.type = "websocket.close", !.code = k] : k \in Codes}
    \cup {[NoMessage EXCEPT !.type = "websocket.ping"]}

(* ------------------------ abstract collaborators ----------------------- *)
(* response_headers(): the server's own headers, fixed per connection.    *)
response_headers == << << <<115>>, <<104>> >> >>

(* utils.suppress_body(method, status) *)
suppress_body(method, status) ==
    \/ method = "HEAD"
    \/ (100 <= status /\ status < 200)
    \/ status \in {204, 304, 412}

(* asend(event): the event goes to the wire; the caller is then suspended. *)
asend(c, event) == [c EXCEPT !.wire = Append(@, event)]

(* asgi_put(message): the message goes on the application's inbound queue. *)
asgi_put(c, message) == [c EXCEPT !.queue = Append(@, message)]

(* config.access_logger.access(scope, response, elapsed) *)
access(c, status, headers) ==
    [c EXCEPT !.log = Append(@, [status |-> status, headers |-> headers])]


(* ------------------------- handler segments ---------------------------- *)
(* What a segment of a handler leaves behind: the connection, the await   *)
(* the handler is suspended at ("done": it returned, "raise": it raised   *)
(* exc), and the local body_suppressed of _asgi_send_rejection.           *)
Seg(c, pc, exc, bs) == [c |-> c, pc |-> pc, exc |-> exc, bs |-> bs]
Return(c) == Seg(c, "done", "none", FALSE)
Raise(c, exc) == Seg(c, "raise", exc, FALSE)
Await(c, pc, bs) == Seg(c, pc, "none", bs)

(* bytes(x).strip(): leading and trailing whitespace removed. *)
RECURSIVE lstrip(_)
lstrip(d) == IF d # <<>> /\ Head(d) = SPACE THEN lstrip(Tail(d)) ELSE d
RECURSIVE rstrip(_)
rstrip(d) == IF d # <<>> /\ d[Len(d)] = SPACE THEN rstrip(SubSeq(d, 1, Len(d) - 1)) ELSE d
strip(d) == rstrip(lstrip(d))

(* chain([(bytes(key).strip(), bytes(value).strip()) ...], response_headers()) *)
rejection_headers(c) ==
    [i \in 1..Len(c.response.headers) |->
        <<strip(c.response.headers[i][1]), strip(c.response.headers[i][2])>>]
    \o response_headers

(* send_http_error: the reject goes out, the coroutine is suspended in    *)
(* asend, and on resumption the access log is written.                    *)
send_http_error_asend(c, status) ==
    asend(c, RejectConnection(status, response_headers, FALSE))
send_http_error_access(c, status) == access(c, status, <<>>)
send_http_error(c, status) == send_http_error_access(send_http_error_asend(c, status), status)

(* Mutant: the accept branch taken in any state. *)
accept_branch_any_state(c, m) == m.type = "websocket.accept"

(* Mutant: a response start staged in any state. *)
response_start_branch_any_state(c, m) == m.type = "websocket.http.response.start"

(* The conditions of asgi_send's if/elif chain, in order. *)
accept_branch(c, m) == m.type = "websocket.accept" /\ c.state = HANDSHAKE
response_start_branch(c, m) ==
    m.type = "websocket.http.response.start" /\ c.state = HANDSHAKE
response_body_branch(c, m) ==
    m.type = "websocket.http.response.body" /\ c.state \in {HANDSHAKE, RESPONSE}
send_branch(c, m) == m.type = "websocket.send" /\ c.state = CONNECTED
close_handshake_branch(c, m) == m.type = "websocket.close" /\ c.state = HANDSHAKE
close_branch(c, m) == m.type = "websocket.close"

(* _asgi_send_rejection, from "if not message.get('more_body', False)". *)
rejection_finish(c, m, bs) ==
    IF ~m.more_body
    THEN Await(asgi_put(c, "websocket.disconnect"), "rejection_put", bs)
    ELSE Return(c)

(* Mutant: the body chunk sent whether or not the body is suppressed. *)
rejection_data_ignores_suppression(c, m, bs) ==
    Await(asend(c, RejectData(m.body, ~m.more_body)), "rejection_data_asend", bs)

(* Mutant: body_finished taken from more_body without the negation. *)
rejection_data_flag_flipped(c, m, bs) ==
    IF ~bs
    THEN Await(asend(c, RejectData(m.body, m.more_body)), "rejection_data_asend", bs)
    ELSE rejection_finish(c, m, bs)

(* _asgi_send_rejection, from "if not body_suppressed". *)
rejection_data(c, m, bs) ==
    IF ~bs
    THEN Await(asend(c, RejectData(m.body, ~m.more_body)), "rejection_data_asend", bs)
    ELSE rejection_finish(c, m, bs)

(* _asgi_send_rejection, from its entry to its first await.  Subscripting *)
(* self.response when no http.response.start has been staged raises.     *)
_asgi_send_rejection(c, m) ==
    IF ~c.response.set THEN Raise(c, "TypeError")
    ELSE LET body_suppressed == suppress_body("GET", c.response.status) IN
         IF c.state = HANDSHAKE
         THEN Await(asend(c, RejectConnection(c.response.status, rejection_headers(c),
                                              ~body_suppressed)),
                    "rejection_reject_asend", body_suppressed)
         ELSE rejection_data(c, m, body_suppressed)

(* Mutant: the text payload sent without the isinstance check. *)
send_message_unchecked(c, m) ==
    IF m.bytes # None THEN Await(asend(c, BytesMessage(m.bytes.data)), "send_asend", FALSE)
    ELSE Await(asend(c, TextMessage(m.text.data)), "send_asend", FALSE)

(* The websocket.send branch of asgi_send. *)
send_message(c, m) ==
    IF m.bytes # None THEN Await(asend(c, BytesMessage(m.bytes.data)), "send_asend", FALSE)
    ELSE IF m.text.kind # "str" THEN Raise(c, "TypeError")
    ELSE Await(asend(c, TextMessage(m.text.data)), "send_asend", FALSE)

(* asgi_send, from its entry to its first await. *)
asgi_send(c, m) ==
    IF accept_branch(c, m) THEN Await(asend(c, AcceptConnection), "accept_asend", FALSE)
    ELSE IF response_start_branch(c, m) THEN
        Return(access([c EXCEPT !.response = [status |-> m.status, headers |-> m.headers,
                                              set |-> TRUE]],
                      m.status, m.headers))
    ELSE IF response_body_branch(c, m) THEN _asgi_send_rejection(c, m)
    ELSE IF send_branch(c, m) THEN send_message(c, m)
    ELSE IF close_handshake_branch(c, m) THEN
        Await(send_http_error_asend(c, 403), "send_http_error_asend", FALSE)
    ELSE IF close_branch(c, m) THEN
        Await(asend(c, CloseConnection(m.code)), "close_asend", FALSE)
    ELSE Raise(c, "UnexpectedMessage")

(* Mutant: the 403 of a close in the handshake followed by CONNECTED. *)
after_close_handshake_connected(c) ==
    Return([send_http_error_access(c, 403) EXCEPT !.state = CONNECTED])

(* What follows each await of asgi_send and _asgi_send_rejection. *)
after_accept(c) == Return(access([c EXCEPT !.state = CONNECTED], 101, <<>>))
after_close_handshake(c) ==
    Return([send_http_error_access(c, 403) EXCEPT !.state = HTTPCLOSED])
after_close(c) == Return([c EXCEPT !.state = CLOSED])
after_reject(c, m, bs) == rejection_data([c EXCEPT !.state = RESPONSE], m, bs)
after_disconnect(c) == Return([c EXCEPT !.state = HTTPCLOSED])

asgi_send_resume(c, m, pc, bs) ==
    CASE pc = "accept_asend" -> after_accept(c)
      [] pc = "send_http_error_asend" -> after_close_handshake(c)
      [] pc = "close_asend" -> after_close(c)
      [] pc = "send_asend" -> Return(c)
      [] pc = "rejection_reject_asend" -> after_reject(c, m, bs)
      [] pc = "rejection_data_asend" -> rejection_finish(c, m, bs)
      [] pc = "rejection_put" -> after_disconnect(c)

(* One asgi_send call run from entry to return or raise with no other     *)
(* coroutine scheduled in between.                                        *)
RECURSIVE run_to_end(_, _)
run_to_end(seg, m) ==
    IF seg.pc \in {"done", "raise"} THEN seg
    ELSE run_to_end(asgi_send_resume(seg.c, m, seg.pc, seg.bs), m)

asgi_send_call(c, m) == run_to_end(asgi_send(c, m), m)

(* ---------------------------- handle_asgi_app -------------------------- *)
(* Mutant: the abnormal closure forced in every state past the handshake. *)
on_exception_any_state(c) ==
    IF c.state # HANDSHAKE
    THEN [asend(c, CloseConnection(ABNORMAL_CLOSURE)) EXCEPT !.state = CLOSED]
    ELSE c

(* except Exception: the abnormal closure of a connected socket. *)
on_exception(c) ==
    IF c.state = CONNECTED
    THEN [asend(c, CloseConnection(ABNORMAL_CLOSURE)) EXCEPT !.state = CLOSED]
    ELSE c

(* Mutant: a cancellation handled like any other exception. *)
on_cancelled_as_exception(c) == on_exception(c)

(* except asyncio.CancelledError: pass *)
on_cancelled(c) == c

(* Mutant: the forced 500 sent without the move to HTTPCLOSED. *)
force_response_keeps_state(c) ==
    IF c.state = HANDSHAKE THEN send_http_error(c, 500) ELSE c

(* Mutant: the 500 forced whatever the state. *)
force_response_always(c) == [send_http_error(c, 500) EXCEPT !.state = HTTPCLOSED]

(* After the try statement: the forced 500 of an unanswered handshake. *)
force_response(c) ==
    IF c.state = HANDSHAKE
    THEN [send_http_error(c, 500) EXCEPT !.state = HTTPCLOSED]
    ELSE c

(* How the application coroutine ends: it returns, raises, is cancelled. *)
Endings == {"returned", "faulted", "cancelled"}

handle_asgi_app_end(c, how) ==
    CASE how = "returned" -> force_response(c)
      [] how = "faulted" -> force_response(on_exception(c))
      [] how = "cancelled" -> force_response(on_cancelled(c))

(* ---------------------------- WebsocketBuffer -------------------------- *)
(* WebsocketBuffer.__init__ *)
WebsocketBuffer(max_length) == [value |-> None, max_length |-> max_length]

(* The fragments of the wire: TextMessage and BytesMessage events. *)
FragmentData == { <<>>, <<1>>, <<2, 3>> }
Fragments ==
    {TextMessage(d) : d \in FragmentData} \cup {BytesMessage(d) : d \in FragmentData}

(* What a call on the buffer leaves behind: the buffer and the exception. *)
BufferResult(b, exc) == [b |-> b, exc |-> exc]

(* self.value += event.data: str + str or bytes + bytes; a str and a bytes *)
(* cannot be added and the attribute keeps its value.                      *)
iadd(value, event) ==
    IF value.kind = (IF event.ev = "TextMessage" THEN "str" ELSE "bytes")
    THEN [value EXCEPT !.data = @ \o event.data]
    ELSE value
iadd_raises(value, event) ==
    value.kind # (IF event.ev = "TextMessage" THEN "str" ELSE "bytes")

(* Mutant: the limit reached counted as the limit exceeded. *)
extend_off_by_one(b, event) ==
    LET started == IF b.value = None
                   THEN IF event.ev = "TextMessage" THEN Str(<<>>) ELSE Bytes(<<>>)
                   ELSE b.value
        grown == [b EXCEPT !.value = iadd(started, event)]
    IN  IF iadd_raises(started, event) THEN BufferResult(grown, "TypeError")
        ELSE IF Len(grown.value.data) >= b.max_length THEN BufferResult(grown, "FrameTooLarge")
        ELSE BufferResult(grown, "none")

(* Mutant: the limit applied to the fragment, not to the accumulated value. *)
extend_checks_fragment(b, event) ==
    LET started == IF b.value = None
                   THEN IF event.ev = "TextMessage" THEN Str(<<>>) ELSE Bytes(<<>>)
                   ELSE b.value
        grown == [b EXCEPT !.value = iadd(started, event)]
    IN  IF iadd_raises(started, event) THEN BufferResult(grown, "TypeError")
        ELSE IF Len(event.data) > b.max_length THEN BufferResult(grown, "FrameTooLarge")
        ELSE BufferResult(grown, "none")

(* WebsocketBuffer.extend *)
extend(b, event) ==
    LET started == IF b.value = None
                   THEN IF event.ev = "TextMessage" THEN Str(<<>>) ELSE Bytes(<<>>)
                   ELSE b.value
        grown == [b EXCEPT !.value = iadd(started, event)]
    IN  IF iadd_raises(started, event) THEN BufferResult(grown, "TypeError")
        ELSE IF Len(grown.value.data) > b.max_length THEN BufferResult(grown, "FrameTooLarge")
        ELSE BufferResult(grown, "none")

(* Mutant: the content emptied, its type kept. *)
clear_keeps_type(b) == [b EXCEPT !.value.data = <<>>]

(* WebsocketBuffer.clear *)
clear(b) == [b EXCEPT !.value = None]

(* Mutant: the two isinstance checks exchanged. *)
to_message_swapped(b) ==
    [type |-> "websocket.receive",
     bytes |-> IF b.value.kind = "str" THEN b.value ELSE None,
     text |-> IF b.value.kind = "bytes" THEN b.value ELSE None]

(* WebsocketBuffer.to_message *)
to_message(b) ==
    [type |-> "websocket.receive",
     bytes |-> IF b.value.kind = "bytes" THEN b.value ELSE None,
     text |-> IF b.value.kind = "str" THEN b.value ELSE None]

NoDelivery == [type |-> "none", bytes |-> None, text |-> None]

(* No buffer has been constructed yet. *)
NoBuffer == [value |-> None, max_length |-> 0]

Emitted(c, d) == SubSeq(d.wire, Len(c.wire) + 1, Len(d.wire))

IdleCall == [pc |-> "idle", m |-> NoMessage, bs |-> FALSE, pre |-> HANDSHAKE, out |-> <<>>]

Tasks == 1..MaxTasks

Init ==
    /\ conn = [state |-> HANDSHAKE, response |-> NoResponse, wire |-> <<>>,
               log |-> <<>>, queue |-> <<>>]
    /\ app = "init"
    /\ hist = <<>>
    /\ fin = [pre |-> HANDSHAKE, out |-> <<>>, logged |-> 0]
    /\ calls = [t \in Tasks |-> IdleCall]
    /\ buffer = NoBuffer
    /\ trace = <<>>

(* handle_asgi_app up to the invocation of the application. *)
HandleAsgiApp ==
    /\ app = "init"
    /\ conn' = asgi_put(conn, "websocket.connect")
    /\ app' = "running"
    /\ UNCHANGED <<hist, fin, calls, buffer, trace>>

Record(m, pre, seg, out, logged) ==
    [m |-> m, pre |-> pre, post |-> seg.c.state, exc |-> seg.exc, out |-> out,
     logged |-> logged]

(* The application awaits asgi_send(m): the call runs to its end. *)
AsgiSend(m) ==
    /\ app = "running"
    /\ Len(hist) < MaxInstr
    /\ LET seg == asgi_send_call(conn, m) IN
        /\ conn' = seg.c
        /\ hist' = Append(hist, Record(m, conn.state, seg, Emitted(conn, seg.c),
                                       Len(seg.c.log) - Len(conn.log)))
    /\ UNCHANGED <<app, fin, calls, buffer, trace>>

(* The application coroutine ends and handle_asgi_app finishes. *)
AppEnds(how) ==
    /\ app = "running"
    /\ \A t \in Tasks : calls[t].pc = "idle"
    /\ LET d == handle_asgi_app_end(conn, how) IN
        /\ conn' = d
        /\ fin' = [pre |-> conn.state, out |-> Emitted(conn, d),
                   logged |-> Len(d.log) - Len(conn.log)]
    /\ app' = how
    /\ UNCHANGED <<hist, calls, buffer, trace>>

Next ==
    \/ HandleAsgiApp
    \/ \E m \in Messages : AsgiSend(m)
    \/ \E how \in Endings : AppEnds(how)

Spec == Init /\ [][Next]_vars

(* -------------------- concurrently issued instructions ----------------- *)
InFlight == Cardinality({t \in Tasks : calls[t].pc # "idle"})

Settle(t, m, pre, out, seg) ==
    IF seg.pc \in {"done", "raise"}
    THEN /\ hist' = Append(hist, Record(m, pre, seg, out, 0))
         /\ calls' = [calls EXCEPT ![t] = IdleCall]
    ELSE /\ hist' = hist
         /\ calls' = [calls EXCEPT ![t] = [pc |-> seg.pc, m |-> m, bs |-> seg.bs,
                                           pre |-> pre, out |-> out]]

(* A task of the application calls asgi_send(m); it runs to its first await. *)
Call(t, m) ==
    /\ app = "running"
    /\ calls[t].pc = "idle"
    /\ Len(hist) + InFlight < MaxInstr
    /\ LET seg == asgi_send(conn, m) IN
        /\ conn' = seg.c
        /\ Settle(t, m, conn.state, Emitted(conn, seg.c), seg)
    /\ UNCHANGED <<app, fin, buffer, trace>>

(* The await a call is suspended at completes; it runs to its next await. *)
Resume(t) ==
    /\ calls[t].pc # "idle"
    /\ LET f == calls[t]
           seg == asgi_send_resume(conn, f.m, f.pc, f.bs) IN
        /\ conn' = seg.c
        /\ Settle(t, f.m, f.pre, f.out \o Emitted(conn, seg.c), seg)
    /\ UNCHANGED <<app, fin, buffer, trace>>

ConcNext ==
    \/ HandleAsgiApp
    \/ \E t \in Tasks, m \in Messages : Call(t, m)
    \/ \E t \in Tasks : Resume(t)

ConcSpec == Init /\ [][ConcNext]_vars

(* ------------------------ calls on a WebsocketBuffer ------------------- *)
Op(op, event, exc, b, msg) ==
    [op |-> op, event |-> event, exc |-> exc, value |-> b.value, msg |-> msg]

(* WebsocketBuffer(max_length): trace[1] is the construction. *)
Construct(max_length) ==
    /\ trace = <<>>
    /\ buffer' = WebsocketBuffer(max_length)
    /\ trace' = <<Op("__init__", NoEvent, "none", buffer', NoDelivery)>>
    /\ UNCHANGED <<conn, app, hist, fin, calls>>

Extend(event) ==
    /\ trace # <<>>
    /\ Len(trace) <= MaxOps
    /\ LET r == extend(buffer, event) IN
        /\ buffer' = r.b
        /\ trace' = Append(trace, Op("extend", event, r.exc, r.b, NoDelivery))
    /\ UNCHANGED <<conn, app, hist, fin, calls>>

Clear ==
    /\ trace # <<>>
    /\ Len(trace) <= MaxOps
    /\ buffer' = clear(buffer)
    /\ trace' = Append(trace, Op("clear", NoEvent, "none", buffer', NoDelivery))
    /\ UNCHANGED <<conn, app, hist, fin, calls>>

ToMessage ==
    /\ trace # <<>>
    /\ Len(trace) <= MaxOps
    /\ trace' = Append(trace, Op("to_message", NoEvent, "none", buffer, to_message(buffer)))
    /\ UNCHANGED <<conn, app, hist, fin, calls, buffer>>

BufferNext ==
    \/ \E n \in 0..MaxLength : Construct(n)
    \/ \E event \in Fragments : Extend(event)
    \/ Clear
    \/ ToMessage

BufferSpec == Init /\ [][BufferNext]_vars

TypeOK ==
    /\ conn.state \in ASGIWebsocketState
    /\ app \in {"init", "running"} \cup Endings
    /\ Len(hist) <= MaxInstr

(* ------------------------------ claims --------------------------------- *)
Ended == app \in Endings
WireCount(ev) == Cardinality({i \in DOMAIN conn.wire : conn.wire[i].ev = ev})
QueueCount(msg) == Cardinality({i \in DOMAIN conn.queue : conn.queue[i] = msg})
Reject500 == RejectConnection(500, response_headers, FALSE)

(* The order of the lifecycle states: a handler may move along it, never   *)
(* against it and never across its two branches.                           *)
Follows(pre, post) ==
    \/ pre = post
    \/ pre = HANDSHAKE /\ post \in {CONNECTED, RESPONSE, HTTPCLOSED}
    \/ pre = CONNECTED /\ post = CLOSED
    \/ pre = RESPONSE /\ post = HTTPCLOSED

(* C1: every change of the lifecycle state made by an asgi_send call or by *)
(* the end of handle_asgi_app follows Handshake -> Connected -> Closed or  *)
(* Handshake -> HttpResponse -> HttpClosed (Handshake -> HttpClosed for a  *)
(* forced rejection): Closed is entered only from Connected.               *)
C1_LifecycleOrder ==
    /\ \A i \in DOMAIN hist : Follows(hist[i].pre, hist[i].post)
    /\ Ended => Follows(fin.pre, conn.state)

(* The rows of the transition table. *)
TableRow(st, type) ==
    \/ st = HANDSHAKE /\ type \in {"websocket.accept", "websocket.http.response.start",
                                   "websocket.http.response.body", "websocket.close"}
    \/ st = RESPONSE /\ type = "websocket.http.response.body"
    \/ st = CONNECTED /\ type \in {"websocket.send", "websocket.close"}

(* C2: an instruction whose (state, kind) pair is no row of the transition *)
(* table raises UnexpectedMessage, emits nothing on the wire and leaves    *)
(* the lifecycle state as it was.                                          *)
C2_OffTableRaises ==
    \A i \in DOMAIN hist :
        ~TableRow(hist[i].pre, hist[i].m.type) =>
            /\ hist[i].exc = "UnexpectedMessage"
            /\ hist[i].out = <<>>
            /\ hist[i].post = hist[i].pre

(* C3: an accept is processed (one accept on the wire, state Connected)    *)
(* exactly when the state is Handshake; any other accept raises            *)
(* UnexpectedMessage and emits nothing, so the wire never carries two.     *)
C3_AcceptOnlyInHandshake ==
    /\ \A i \in DOMAIN hist :
        hist[i].m.type = "websocket.accept" =>
            IF hist[i].pre = HANDSHAKE
            THEN /\ hist[i].exc = "none"
                 /\ hist[i].out = <<AcceptConnection>>
                 /\ hist[i].post = CONNECTED
            ELSE /\ hist[i].exc = "UnexpectedMessage"
                 /\ hist[i].out = <<>>
                 /\ hist[i].post = hist[i].pre
    /\ WireCount("AcceptConnection") <= 1

C3_Witness ==
    \E i, j \in DOMAIN hist :
        /\ i < j
        /\ hist[i].m.type = "websocket.accept" /\ hist[i].post = CONNECTED
        /\ hist[j].m.type = "websocket.accept" /\ hist[j].exc = "UnexpectedMessage"

(* C4: when the application returns or raises while the state is still     *)
(* Handshake, handle_asgi_app emits exactly one reject with status 500,    *)
(* the only wire action of the connection, and ends in HttpClosed.         *)
C4_Forced500 ==
    (app \in {"returned", "faulted"} /\ fin.pre = HANDSHAKE) =>
        /\ fin.out = <<Reject500>>
        /\ conn.wire = <<Reject500>>
        /\ conn.state = HTTPCLOSED

C4_Witness ==
    /\ app = "faulted" /\ fin.pre = HANDSHAKE
    /\ \E i \in DOMAIN hist : hist[i].m.type = "websocket.http.response.start"

(* C5 as stated: in whatever state the cancellation arrives,               *)
(* handle_asgi_app emits no wire action and leaves the state as it was.    *)
C5_CancelSilentEverywhere ==
    app = "cancelled" => fin.out = <<>> /\ conn.state = fin.pre

(* C5, amended: a cancellation that arrives in Connected, HttpResponse,    *)
(* Closed or HttpClosed emits no wire action and leaves the state; one     *)
(* that arrives in Handshake gets the forced 500 and ends in HttpClosed.   *)
C5_CancelSilentUnlessHandshake ==
    app = "cancelled" =>
        IF fin.pre = HANDSHAKE
        THEN fin.out = <<Reject500>> /\ conn.state = HTTPCLOSED
        ELSE fin.out = <<>> /\ conn.state = fin.pre

C5_Witness == app = "cancelled" /\ fin.pre = CONNECTED /\ conn.state = CONNECTED

(* C6: a fault of the application in Connected makes the fault handler     *)
(* emit exactly one close with the abnormal-closure code and end in        *)
(* Closed; a fault in any other state emits no close.                      *)
C6_FaultCloses ==
    app = "faulted" =>
        IF fin.pre = CONNECTED
        THEN fin.out = <<CloseConnection(ABNORMAL_CLOSURE)>> /\ conn.state = CLOSED
        ELSE \A i \in DOMAIN fin.out : fin.out[i].ev # "CloseConnection"

C6_Witness == app = "faulted" /\ fin.pre = CONNECTED /\ conn.state = CLOSED

(* C7: when the application returns or raises, handle_asgi_app finishes    *)
(* with the lifecycle state Closed or HttpClosed.                          *)
C7_AlwaysResolved ==
    app \in {"returned", "faulted"} => conn.state \in {CLOSED, HTTPCLOSED}

(* C8: once the application has ended, exactly one access-log record has   *)
(* been written for the connection.                                        *)
C8_LoggedOnce == Ended => Len(conn.log) = 1

(* C9: instructions are processed one at a time, so two accepts issued     *)
(* concurrently put exactly one accept on the wire.                        *)
C9_OneAcceptOnWire == WireCount("AcceptConnection") <= 1

(* The history is an HTTP-response sequence: a start whose status carries  *)
(* a body, then body instructions of which at most the last is final.      *)
ResponsePath ==
    /\ Len(hist) >= 2
    /\ hist[1].m.type = "websocket.http.response.start"
    /\ ~suppress_body("GET", hist[1].m.status)
    /\ \A j \in 2..Len(hist) :
        /\ hist[j].m.type = "websocket.http.response.body"
        /\ j < Len(hist) => hist[j].m.more_body

StagedReject ==
    RejectConnection(hist[1].m.status,
                     [i \in 1..Len(hist[1].m.headers) |->
                        <<strip(hist[1].m.headers[i][1]), strip(hist[1].m.headers[i][2])>>]
                     \o response_headers,
                     TRUE)

(* C10: on an HTTP-response sequence the wire carries one reject with the  *)
(* staged status and has_body, then one body chunk per body instruction in *)
(* order, final exactly where more_body is false; the state is HttpResponse*)
(* after a non-final chunk and HttpClosed after the final one, and the     *)
(* disconnect is queued once, at the final chunk.                          *)
C10_ResponsePath ==
    ResponsePath =>
        /\ conn.wire = <<StagedReject>>
                       \o [j \in 1..(Len(hist) - 1) |->
                            RejectData(hist[j + 1].m.body, ~hist[j + 1].m.more_body)]
        /\ hist[2].out[1] = StagedReject
        /\ \A j \in 2..Len(hist) :
            hist[j].post = IF hist[j].m.more_body THEN RESPONSE ELSE HTTPCLOSED
        /\ QueueCount("websocket.disconnect")
             = IF hist[Len(hist)].m.more_body THEN 0 ELSE 1

C10_Witness ==
    /\ ResponsePath
    /\ Len(hist) = 4
    /\ ~hist[4].m.more_body
    /\ hist[3].m.body # <<>>
    /\ conn.state = HTTPCLOSED

Reject403 == RejectConnection(403, response_headers, FALSE)
WireCountOf(event) == Cardinality({i \in DOMAIN conn.wire : conn.wire[i] = event})
DataFrames == WireCount("BytesMessage") + WireCount("TextMessage")

(* C11: a close issued in Handshake emits exactly one reject with status   *)
(* 403 and no body and moves the state to HttpClosed, and the wire of that *)
(* connection never carries a data frame, whatever is issued afterwards.   *)
C11_CloseInHandshake ==
    \A i \in DOMAIN hist :
        (hist[i].m.type = "websocket.close" /\ hist[i].pre = HANDSHAKE) =>
            /\ hist[i].exc = "none"
            /\ hist[i].out = <<Reject403>>
            /\ hist[i].post = HTTPCLOSED
            /\ WireCountOf(Reject403) = 1
            /\ DataFrames = 0

C11_Witness ==
    \E i, j \in DOMAIN hist :
        /\ i < j
        /\ hist[i].m.type = "websocket.close" /\ hist[i].pre = HANDSHAKE
        /\ hist[j].m.type = "websocket.send" /\ hist[j].m.bytes # None
        /\ Ended

(* C16: in Connected a send with a binary payload emits exactly one binary *)
(* data frame with the same bytes, a send with a text payload that is a    *)
(* str emits exactly one text data frame with that text, and a send whose  *)
(* text payload is not a str (and which has no binary payload) raises      *)
(* TypeError with nothing emitted; the state stays Connected in all three. *)
C16_SendInConnected ==
    \A i \in DOMAIN hist :
        (hist[i].m.type = "websocket.send" /\ hist[i].pre = CONNECTED) =>
            /\ hist[i].post = CONNECTED
            /\ IF hist[i].m.bytes.kind = "bytes"
               THEN hist[i].exc = "none" /\ hist[i].out = <<BytesMessage(hist[i].m.bytes.data)>>
               ELSE IF hist[i].m.text.kind = "str"
               THEN hist[i].exc = "none" /\ hist[i].out = <<TextMessage(hist[i].m.text.data)>>
               ELSE hist[i].exc = "TypeError" /\ hist[i].out = <<>>

C16_Witness ==
    \E i, j, k \in DOMAIN hist :
        /\ hist[i].pre = CONNECTED /\ hist[i].m.bytes.kind = "bytes"
        /\ hist[j].pre = CONNECTED /\ hist[j].m.text.kind = "int"
        /\ hist[k].pre = CONNECTED /\ hist[k].m.text.kind = "str"
        /\ i < j /\ j < k

(* The response staged after the first k instructions: that of the last    *)
(* http.response.start issued in Handshake.                                *)
StartsInHandshake(k) ==
    {j \in 1..k : hist[j].m.type = "websocket.http.response.start" /\ hist[j].pre = HANDSHAKE}
LastOf(S) == CHOOSE j \in S : \A l \in S : l <= j
Staged(k) ==
    IF StartsInHandshake(k) = {} THEN NoResponse
    ELSE [status |-> hist[LastOf(StartsInHandshake(k))].m.status,
          headers |-> hist[LastOf(StartsInHandshake(k))].m.headers,
          set |-> TRUE]
StrippedHeaders(headers) ==
    [i \in 1..Len(headers) |-> <<strip(headers[i][1]), strip(headers[i][2])>>]

(* C17: an http.response.start issued once the reject is on the wire       *)
(* (HttpResponse, HttpClosed) raises UnexpectedMessage and changes nothing:*)
(* the staged response is always that of the last start issued in          *)
(* Handshake, and the reject carries its status and its headers.           *)
C17_HeadersFrozen ==
    /\ conn.response = Staged(Len(hist))
    /\ \A i \in DOMAIN hist :
        /\ (hist[i].m.type = "websocket.http.response.start"
                /\ hist[i].pre \in {RESPONSE, HTTPCLOSED}) =>
            /\ hist[i].exc = "UnexpectedMessage"
            /\ hist[i].out = <<>>
            /\ hist[i].post = hist[i].pre
            /\ hist[i].logged = 0
        /\ (hist[i].m.type = "websocket.http.response.body"
                /\ hist[i].pre = HANDSHAKE /\ hist[i].exc = "none") =>
            /\ hist[i].out[1].ev = "RejectConnection"
            /\ hist[i].out[1].status_code = Staged(i - 1).status
            /\ hist[i].out[1].headers
                 = StrippedHeaders(Staged(i - 1).headers) \o response_headers

C17_Witness ==
    /\ Len(hist) = 4
    /\ hist[1].m.type = "websocket.http.response.start"
    /\ hist[2].m.type = "websocket.http.response.start"
    /\ hist[1].m.status # hist[2].m.status
    /\ hist[2].m.headers # <<>>
    /\ hist[3].m.type = "websocket.http.response.body" /\ hist[3].post = RESPONSE
    /\ hist[4].m.type = "websocket.http.response.start"
    /\ hist[4].m.status # hist[2].m.status

HandshakeAnswers == WireCount("AcceptConnection") + WireCount("RejectConnection")

C20_BodyChunks ==
    /\ \A k \in DOMAIN conn.wire :
        conn.wire[k].ev = "RejectData" =>
            /\ \E j \in 1..(k - 1) :
                conn.wire[j].ev = "RejectConnection" /\ conn.wire[j].has_body
            /\ \A j \in 1..(k - 1) :
                ~(conn.wire[j].ev = "RejectData" /\ conn.wire[j].body_finished)
    /\ \A i \in DOMAIN hist :
        (/\ hist[i].m.type = "websocket.http.response.body"
         /\ hist[i].pre \in {HANDSHAKE, RESPONSE}
         /\ hist[i].exc = "none"
         /\ suppress_body("GET", Staged(i - 1).status)) =>
            /\ WireCount("RejectData") = 0
            /\ hist[i].pre = HANDSHAKE =>
                /\ Len(hist[i].out) = 1
                /\ hist[i].out[1].ev = "RejectConnection"
                /\ ~hist[i].out[1].has_body
            /\ hist[i].pre = RESPONSE => hist[i].out = <<>>
            /\ ~hist[i].m.more_body =>
                /\ hist[i].post = HTTPCLOSED
                /\ QueueCount("websocket.disconnect") = 1

C20_Witness ==
    /\ Len(hist) >= 3
    /\ hist[1].m.type = "websocket.http.response.start"
    /\ suppress_body("GET", hist[1].m.status)
    /\ hist[2].m.type = "websocket.http.response.body" /\ hist[2].m.more_body
    /\ hist[2].m.body # <<>>
    /\ hist[3].m.type = "websocket.http.response.body" /\ ~hist[3].m.more_body
    /\ conn.state = HTTPCLOSED

(* C18: no Pending Response is held in any state where the lifecycle state *)
(* is Connected, Closed or HttpClosed.                                     *)
C18_ResponseDiscarded ==
    conn.state \in {CONNECTED, CLOSED, HTTPCLOSED} => ~conn.response.set

(* ------------------------ claims on the buffer ------------------------- *)
Resets(k) == trace[k].op \in {"__init__", "clear"}
Appended(k) == trace[k].op = "extend" /\ trace[k].exc # "TypeError"
EventKind(event) == IF event.ev = "TextMessage" THEN "str" ELSE "bytes"

(* The fragments appended since the last clear, concatenated, after the    *)
(* first k calls; their type; and whether one of them raised FrameTooLarge.*)
RECURSIVE ContentAt(_)
ContentAt(k) ==
    IF k = 0 \/ Resets(k) THEN <<>>
    ELSE IF Appended(k) THEN ContentAt(k - 1) \o trace[k].event.data
    ELSE ContentAt(k - 1)
RECURSIVE KindAt(_)
KindAt(k) ==
    IF k = 0 \/ Resets(k) THEN "none"
    ELSE IF Appended(k) THEN EventKind(trace[k].event)
    ELSE KindAt(k - 1)
RECURSIVE TooLargeSince(_)
TooLargeSince(k) ==
    IF k = 0 \/ Resets(k) THEN FALSE
    ELSE IF trace[k].exc = "FrameTooLarge" THEN TRUE
    ELSE TooLargeSince(k - 1)

(* C12 as stated: after any sequence of extend and clear calls, also one   *)
(* in which extend has raised FrameTooLarge, the content is no longer than *)
(* max_length.                                                             *)
C12_NeverOverLimit == Len(buffer.value.data) <= buffer.max_length

(* C12, amended: the content is no longer than max_length exactly as long  *)
(* as no extend has raised FrameTooLarge since the last clear; an extend   *)
(* that raises leaves the oversize content in the buffer until clear.      *)
C12_OverLimitOnlyAfterRaise ==
    \A k \in DOMAIN trace :
        (Len(trace[k].value.data) <= buffer.max_length) <=> ~TooLargeSince(k)

C12_Witness ==
    \E i, j, k \in DOMAIN trace :
        /\ i < j /\ j < k
        /\ trace[i].exc = "FrameTooLarge"
        /\ trace[j].op = "clear"
        /\ trace[k].op = "extend" /\ trace[k].exc = "none" /\ trace[k].event.data # <<>>

(* C13: an extend of a fragment of the buffer's type raises FrameTooLarge  *)
(* exactly when the accumulated length is strictly greater than the limit: *)
(* fragments that add up to the limit exactly all succeed and one more     *)
(* byte or character raises.                                               *)
C13_Threshold ==
    \A k \in DOMAIN trace :
        Appended(k) =>
            /\ (trace[k].exc = "FrameTooLarge") <=> (Len(ContentAt(k)) > buffer.max_length)
            /\ (trace[k].exc = "none") <=> (Len(ContentAt(k)) <= buffer.max_length)

C13_Witness ==
    \E k \in DOMAIN trace :
        /\ k > 2 /\ k < Len(trace)
        /\ Appended(k) /\ Appended(k - 1) /\ Appended(k + 1)
        /\ trace[k - 1].event.data # <<>> /\ trace[k].event.data # <<>>
        /\ Len(ContentAt(k)) = buffer.max_length /\ trace[k].exc = "none"
        /\ Len(trace[k + 1].event.data) = 1 /\ trace[k + 1].exc = "FrameTooLarge"

(* C14: the type of the content is that of the first fragment after the    *)
(* creation or the last clear; a fragment of the other type raises and     *)
(* leaves the content as it was; after clear a fragment of the opposite    *)
(* type is taken (it succeeds when it fits the limit) and the content is   *)
(* exactly its data.                                                       *)
C14_TypeDiscipline ==
    \A k \in DOMAIN trace :
        (k > 1 /\ trace[k].op = "extend") =>
            IF KindAt(k - 1) = "none"
            THEN /\ trace[k].value.kind = EventKind(trace[k].event)
                 /\ trace[k].value.data = trace[k].event.data
                 /\ trace[k].exc = IF Len(trace[k].event.data) <= buffer.max_length
                                   THEN "none" ELSE "FrameTooLarge"
            ELSE /\ trace[k].value.kind = KindAt(k - 1)
                 /\ EventKind(trace[k].event) # KindAt(k - 1) =>
                        /\ trace[k].exc = "TypeError"
                        /\ trace[k].value = trace[k - 1].value
                 /\ EventKind(trace[k].event) = KindAt(k - 1) =>
                        /\ trace[k].exc # "TypeError"
                        /\ trace[k].value.data = trace[k - 1].value.data \o trace[k].event.data

C14_Witness ==
    \E k \in DOMAIN trace :
        /\ k > 3
        /\ trace[k - 3].op = "extend" /\ trace[k - 3].event.ev = "BytesMessage"
        /\ trace[k - 3].event.data # <<>>
        /\ trace[k - 2].op = "extend" /\ trace[k - 2].exc = "TypeError"
        /\ trace[k - 1].op = "clear"
        /\ trace[k].op = "extend" /\ trace[k].event.ev = "TextMessage"
        /\ trace[k].event.data # <<>> /\ trace[k].exc = "none"

Populated(v) == v # None

(* C15 as stated: in every reachable buffer state to_message returns a     *)
(* websocket.receive record with exactly one of bytes and text populated.  *)
C15_ExactlyOnePopulated ==
    \A k \in DOMAIN trace :
        trace[k].op = "to_message" =>
            /\ trace[k].msg.type = "websocket.receive"
            /\ Populated(trace[k].msg.bytes) # Populated(trace[k].msg.text)

(* C15, amended: when at least one fragment has been appended since the    *)
(* creation or the last clear, to_message returns a websocket.receive      *)
(* record with exactly one of bytes and text populated, the other None:    *)
(* bytes for binary fragments, text for text fragments, equal to their     *)
(* concatenation; on an empty buffer both fields are None.                 *)
C15_DeliveryRecord ==
    \A k \in DOMAIN trace :
        trace[k].op = "to_message" =>
            /\ trace[k].msg.type = "websocket.receive"
            /\ CASE KindAt(k) = "bytes" ->
                        /\ trace[k].msg.bytes = Bytes(ContentAt(k))
                        /\ trace[k].msg.text = None
                 [] KindAt(k) = "str" ->
                        /\ trace[k].msg.text = Str(ContentAt(k))
                        /\ trace[k].msg.bytes = None
                 [] KindAt(k) = "none" ->
                        /\ trace[k].msg.bytes = None
                        /\ trace[k].msg.text = None

C15_Witness ==
    \E k \in DOMAIN trace :
        /\ k > 3
        /\ trace[k].op = "to_message"
        /\ trace[k - 1].op = "extend" /\ trace[k - 1].exc = "none"
        /\ trace[k - 2].op = "extend" /\ trace[k - 2].exc = "none"
        /\ trace[k - 1].event.data # <<>> /\ trace[k - 2].event.data # <<>>
        /\ trace[k - 1].event.data # trace[k - 2].event.data
        /\ Populated(trace[k].msg.text)

====
